---- MODULE Spec2Model ----
(***************************************************************************)
(* Label declutter orchestration of the scatter chart page                 *)
(* (AdamKAstro/gold-silver-analysis-app).  Two variants of the page live   *)
(* in the repository and both are modelled, selected by `variant`:         *)
(*   "gem"  - src/ScatterChart_GoogleGem_index.tsx                         *)
(*   "p000" - src/unnamed/part_000                                         *)
(*                                                                         *)
(* Numbers.  JavaScript numbers are kept in fixed point:                   *)
(*   - metric values are integers (hundredths of the data unit);           *)
(*   - screen coordinates are whole pixels (a quotient is floored);        *)
(*   - labelCollisionRadius and labelForceStrength are kept in tenths.     *)
(* A JavaScript value read off a record is tagged: Num(n), Null, Undef.    *)
(***************************************************************************)
EXTENDS Integers, Sequences, FiniteSets, TLC

VARIABLES
  variant,        \* which page implementation runs
  currency,       \* useCurrency().currency
  inflight,       \* fetches started and not yet settled, oldest first
  data,           \* useState<Company[]>
  loading,        \* useState(loading)
  error,          \* useState<string | null>, "" stands for null
  xMetric,        \* useState(xMetric)
  xScale,         \* useState(xScale)
  yScale,         \* useState(yScale)
  zScale,         \* useState(zScale)
  zoom,           \* useState(zoom), in hundredths
  showLabels,     \* useState(showLabels)
  tolerances,     \* useState<ToleranceSettings>
  container,      \* size of the chart container as laid out by the browser
  timers,         \* pending setTimeout callbacks, in expiry order
  labelElements,  \* useState<React.ReactNode[]>
  simInput,       \* history: the boxes the last pass handed to createLabelSimulation
  lastRun,        \* history: what the last run of updateLabels saw and did
  dirty,          \* history: a layout input changed and no run has used it yet
  nEvents,        \* number of user / browser events so far
  probe           \* a call of one of the numeric utilities: arguments and result

vars == <<variant, currency, inflight, data, loading, error, xMetric, xScale,
          yScale, zScale, zoom, showLabels, tolerances, container, timers,
          labelElements, simInput, lastRun, dirty, nEvents, probe>>

-----------------------------------------------------------------------------
(* Bounds of the model *)

MaxEvents == 3       \* user / browser events per behaviour
MaxInflight == 2     \* overlapping fetches
MaxTimers == 3       \* pending timers
MaxValues == 3       \* values handed to one call of getDomain or normalizeValues

-----------------------------------------------------------------------------
(* Arithmetic helpers *)

\* the sequence with the elements of f, each computed once
AsSeq(f) == f \o <<>>

Abs(n) == IF n < 0 THEN -n ELSE n
Min2(a, b) == IF a <= b THEN a ELSE b
Max2(a, b) == IF a >= b THEN a ELSE b

RECURSIVE SeqMin(_)
SeqMin(s) == IF Len(s) = 1 THEN s[1] ELSE Min2(s[1], SeqMin(Tail(s)))
RECURSIVE SeqMax(_)
SeqMax(s) == IF Len(s) = 1 THEN s[1] ELSE Max2(s[1], SeqMax(Tail(s)))

Pow2(k) == 2 ^ k
Pow10(k) == 10 ^ k

RECURSIVE FloorLog2(_)
\* the largest k with 2^k <= n, for n >= 1
FloorLog2(n) == IF n < 2 THEN 0 ELSE 1 + FloorLog2(n \div 2)

RECURSIVE Log2Frac(_, _)
\* the first `bits` binary digits of log2(y / 4096), for 4096 <= y < 8192,
\* as an integer numerator over 2^bits (the squaring method)
Log2Frac(y, bits) ==
  IF bits = 0 THEN 0
  ELSE LET sq == (y * y) \div 4096
       IN IF sq >= 8192
          THEN Pow2(bits - 1) + Log2Frac(sq \div 2, bits - 1)
          ELSE Log2Frac(sq, bits - 1)

\* 1024 * log2(n), floored, for an integer n >= 1 (n < 2^19 keeps the
\* mantissa within 32 bits)
Log2Q(n) ==
  LET k == FloorLog2(n)
      y == IF k <= 12 THEN n * Pow2(12 - k) ELSE n \div Pow2(k - 12)
  IN k * 1024 + Log2Frac(y, 10)

\* Math.log10(n) in thousandths (to the nearest), for an integer n >= 1
Log10m(n) ==
  IF n >= 524288 THEN 3000 + (Log2Q(n \div 1000) * 30103 + 51200) \div 102400
  ELSE (Log2Q(n) * 30103 + 51200) \div 102400

RECURSIVE Bisect10(_, _, _)
\* the largest d in lo..hi with Log10m(d) <= target (lo satisfies it)
Bisect10(lo, hi, target) ==
  IF lo >= hi THEN lo
  ELSE LET mid == (lo + hi + 1) \div 2
       IN IF Log10m(mid) <= target THEN Bisect10(mid, hi, target)
          ELSE Bisect10(lo, mid - 1, target)

\* Math.pow(10, e / 1000), floored to an integer, for e >= 0 (thousandths)
Pow10m(e) ==
  LET k == e \div 1000
      d == Bisect10(1000, 9999, 3000 + (e % 1000))
  IN IF k >= 3 THEN d * Pow10(k - 3) ELSE d \div Pow10(3 - k)

RECURSIVE MulDiv(_, _, _)
\* floor(a * b / c) for c > 0, b >= 0, computed without leaving 32 bits
MulDiv(a, b, c) ==
  IF c > 1000000 THEN MulDiv(a \div 1000, b, c \div 1000)
  ELSE (a \div c) * b + ((a % c) * b) \div c

-----------------------------------------------------------------------------
(* JavaScript values read off a record *)

Num(n) == [t |-> "num", v |-> n]
Null == [t |-> "null"]
Undef == [t |-> "undef"]
NaN == [t |-> "nan"]
Obj(f) == [t |-> "obj", f |-> f]

IsNum(v) == v.t = "num"
\* the numbers of a sequence of numeric values
MapVals(coords) == AsSeq([i \in 1..Len(coords) |-> coords[i].v])
\* JavaScript truthiness of a value
Truthy(v) == v.t = "obj" \/ (v.t = "num" /\ v.v /= 0)

-----------------------------------------------------------------------------
(* Companies, as returned by getCompaniesForScatterChart *)

\* an object with the given fields; a field given as Undef is absent
Fields(f) == Obj([k \in {j \in DOMAIN f : f[j] /= Undef} |-> f[k]])

Company(id, tsx, name, mc, evv, evoz, prod) ==
  Obj([id |-> Num(id),
       tsx_code |-> tsx,
       company_name |-> name,
       financials |-> Fields([market_cap_value |-> mc,
                              enterprise_value_value |-> evv]),
       valuation_metrics |-> Fields([ev_per_resource_oz_all |-> evoz]),
       production |-> Fields([current_production_total_aueq_koz |-> prod])])

\* getMetricByKey(key).path, split at the dots
MetricPath(key) ==
  CASE key = "market_cap_value" -> <<"financials", "market_cap_value">>
    [] key = "enterprise_value_value" -> <<"financials", "enterprise_value_value">>
    [] key = "ev_per_resource_oz_all" -> <<"valuation_metrics", "ev_per_resource_oz_all">>
    [] key = "current_production_total_aueq_koz" ->
         <<"production", "current_production_total_aueq_koz">>

XMetrics == {"market_cap_value", "enterprise_value_value"}
YMetricKey == "ev_per_resource_oz_all"
ZMetricKey == "current_production_total_aueq_koz"

RECURSIVE ReduceGem(_, _)
\* path.reduce((o, i) => (o && typeof o === 'object' && i in o) ? o[i] : null, obj)
ReduceGem(o, path) ==
  IF path = <<>> THEN o
  ELSE ReduceGem(IF o.t = "obj" /\ path[1] \in DOMAIN o.f THEN o.f[path[1]] ELSE Null,
                 Tail(path))

RECURSIVE ReduceP000(_, _)
\* path.reduce((o, i) => (o && o[i] !== 'undefined') ? o[i] : null, obj)
ReduceP000(o, path) ==
  IF path = <<>> THEN o
  ELSE ReduceP000(IF Truthy(o)
                  THEN (IF o.t = "obj" /\ path[1] \in DOMAIN o.f THEN o.f[path[1]]
                        ELSE Undef)
                  ELSE Null,
                  Tail(path))

getNestedValue(v, obj, path) ==
  IF v = "gem"
  THEN (IF path = <<>> \/ ~Truthy(obj) THEN Null ELSE ReduceGem(obj, path))
  ELSE ReduceP000(obj, path)

-----------------------------------------------------------------------------
(* Tolerance settings; labelCollisionRadius and labelForceStrength in tenths *)

defaultTolerances(v) ==
  IF v = "gem"
  THEN [labelCollisionRadius |-> 15, labelForceStrength |-> 8,
        labelYOffset |-> 5, labelDensityThreshold |-> 5,
        labelSimulationIterations |-> 250,
        xAxisTitleOffset |-> 40, yAxisTitleOffset |-> 55,
        chartMarginTop |-> 20, chartMarginRight |-> 30,
        chartMarginBottom |-> 70, chartMarginLeft |-> 80]
  ELSE [labelCollisionRadius |-> 50, labelForceStrength |-> 1,
        labelYOffset |-> -10, labelDensityThreshold |-> 18,
        labelSimulationIterations |-> 300,
        xAxisTitleOffset |-> 20, yAxisTitleOffset |-> 20,
        chartMarginTop |-> 20, chartMarginRight |-> 20,
        chartMarginBottom |-> 50, chartMarginLeft |-> 60]

-----------------------------------------------------------------------------
(* transformedData: the scatter points of the companies *)

Positive(val) == IsNum(val) /\ val.v > 0

\* the filter of transformedData on one candidate point
ValidPoint(v, pt, xs, ys, zs) ==
  IF v = "gem"
  THEN /\ pt.x /= Null /\ pt.y /= Null /\ pt.z /= Null
       /\ IsNum(pt.x) /\ IsNum(pt.y) /\ IsNum(pt.z)
       /\ (xs = "linear" \/ pt.x.v > 0)
       /\ (ys = "linear" \/ pt.y.v > 0)
       /\ (zs = "linear" \/ pt.z.v > 0)
  ELSE /\ pt.x /= Null /\ pt.y /= Null /\ pt.z /= Null
       /\ (xs = "linear" \/ Positive(pt.x))
       /\ (ys = "linear" \/ Positive(pt.y))
       /\ (zs = "linear" \/ Positive(pt.z))

RawPoint(v, company, xm) ==
  [x |-> getNestedValue(v, company, MetricPath(xm)),
   y |-> getNestedValue(v, company, MetricPath(YMetricKey)),
   z |-> getNestedValue(v, company, MetricPath(ZMetricKey)),
   company |-> company]

RECURSIVE FilterPoints(_, _, _, _, _)
FilterPoints(v, pts, xs, ys, zs) ==
  IF pts = <<>> THEN <<>>
  ELSE (IF ValidPoint(v, pts[1], xs, ys, zs) THEN <<pts[1]>> ELSE <<>>)
       \o FilterPoints(v, Tail(pts), xs, ys, zs)

transformedData(v, d, xm, xs, ys, zs) ==
  FilterPoints(v, AsSeq([i \in 1..Len(d) |-> RawPoint(v, d[i], xm)]), xs, ys, zs)

-----------------------------------------------------------------------------
(* getDomain: an axis domain in thousandths of the data unit, *)
(* [k |-> "num", lo, hi], or the 'auto' sentinel, or NaN      *)

NumDomain(lo, hi) == [k |-> "num", lo |-> lo, hi |-> hi]
AutoDomain == [k |-> "auto"]
NaNDomain == [k |-> "nan"]

RECURSIVE SelectPositive(_)
SelectPositive(vals) ==
  IF vals = <<>> THEN <<>>
  ELSE (IF vals[1] > 0 THEN <<vals[1]>> ELSE <<>>) \o SelectPositive(Tail(vals))

\* GoogleGem getDomain, on finite values (hundredths)
getDomainGem(vals, scale) ==
  IF vals = <<>> THEN AutoDomain
  ELSE IF scale = "log"
  THEN LET pos == SelectPositive(vals)
       IN IF pos = <<>> THEN AutoDomain
          ELSE LET domainMin == (20 * SeqMin(pos)) \div 3
                   domainMax == 15 * SeqMax(pos)
               IN NumDomain(IF domainMin > 0 THEN domainMin ELSE 1, domainMax)
  ELSE LET minVal == SeqMin(vals)
           maxVal == SeqMax(vals)
       IN IF minVal = maxVal
          THEN LET padding == IF minVal = 0 THEN 1000 ELSE Abs(minVal)
               IN NumDomain(10 * minVal - padding, 10 * minVal + padding)
          ELSE LET padding == maxVal - minVal
               IN NumDomain(10 * minVal - padding, 10 * maxVal + padding)

\* Math.log(Math.max(v, 1)) in thousandths, v in hundredths
LnMax1(n) == ((Log10m(Max2(n, 100)) - 2000) * 2303) \div 1000

\* part_000 getDomain, on numbers (hundredths)
getDomainP000(vals, scale) ==
  IF vals = <<>> THEN NumDomain(0, 1000)
  ELSE IF scale = "log"
  THEN LET logValues == AsSeq([i \in 1..Len(vals) |-> LnMax1(vals[i])])
           minLog == SeqMin(logValues)
           maxLog == SeqMax(logValues)
           padding == IF maxLog = minLog THEN 100 ELSE (maxLog - minLog) \div 10
       IN NumDomain(Pow10m(minLog - padding + 3000), Pow10m(maxLog + padding + 3000))
  ELSE LET min == SeqMin(vals)
           max == SeqMax(vals)
           padding == IF max = min THEN 100 ELSE max - min
       IN NumDomain(10 * min - padding, 10 * max + padding)

\* values.filter(v => Number.isFinite(v))
finiteValues(coords) == SelectSeq(coords, IsNum)

\* getDomain of the page on a sequence of values; in part_000 a value that
\* is not a number makes Math.min / Math.max NaN
getDomain(v, coords, scale) ==
  IF v = "gem" THEN getDomainGem(MapVals(finiteValues(coords)), scale)
  ELSE IF \E i \in 1..Len(coords) : ~IsNum(coords[i]) THEN NaNDomain
  ELSE getDomainP000(MapVals(coords), scale)

-----------------------------------------------------------------------------
(* normalizeValues: normalized values in thousandths, Num(0) .. Num(1000), *)
(* or NaN                                                                  *)

\* Math.max(0, Math.min(1, q)), q in thousandths
ClampUnit(q) == Max2(0, Min2(1000, q))

\* GoogleGem, log scale; pos are the positive finite values
NormalizeLogGem(values, pos) ==
  IF pos = <<>> \/ SeqMin(pos) = SeqMax(pos)
  THEN AsSeq([i \in 1..Len(values) |->
                IF Positive(values[i]) THEN Num(500) ELSE Num(0)])
  ELSE AsSeq([i \in 1..Len(values) |->
                IF ~Positive(values[i]) THEN Num(0)
                ELSE Num(ClampUnit(MulDiv(Log10m(values[i].v) - Log10m(SeqMin(pos)),
                                          1000,
                                          Log10m(SeqMax(pos)) - Log10m(SeqMin(pos)))))])

\* GoogleGem, linear scale; min and max of the finite values
NormalizeLinearGem(values, min, max) ==
  IF min = max
  THEN AsSeq([i \in 1..Len(values) |-> IF IsNum(values[i]) THEN Num(500) ELSE Num(0)])
  ELSE AsSeq([i \in 1..Len(values) |->
                IF ~IsNum(values[i]) THEN Num(0)
                ELSE Num(ClampUnit(MulDiv(values[i].v - min, 1000, max - min)))])

normalizeValuesGem(values, scale) ==
  IF values = <<>> THEN <<>>
  ELSE IF finiteValues(values) = <<>>
  THEN AsSeq([i \in 1..Len(values) |-> Num(500)])
  ELSE IF scale = "log"
  THEN NormalizeLogGem(values, SelectPositive(MapVals(finiteValues(values))))
  ELSE NormalizeLinearGem(values, SeqMin(MapVals(finiteValues(values))),
                          SeqMax(MapVals(finiteValues(values))))

\* part_000: max === min ? 0 : (v - min) / (max - min), on numbers
NormalizeRangeP000(vals, min, max) ==
  AsSeq([i \in 1..Len(vals) |->
           IF max = min THEN Num(0) ELSE Num(MulDiv(vals[i] - min, 1000, max - min))])

\* part_000, on numbers (hundredths)
NormalizeNumbersP000(vals, scale) ==
  IF scale = "log"
  THEN NormalizeRangeP000(AsSeq([i \in 1..Len(vals) |-> LnMax1(vals[i])]),
                          LnMax1(SeqMin(vals)), LnMax1(SeqMax(vals)))
  ELSE NormalizeRangeP000(vals, SeqMin(vals), SeqMax(vals))

\* part_000: a NaN among the values makes Math.min and Math.max NaN, and
\* with them every quotient
normalizeValuesP000(values, scale) ==
  IF values = <<>> THEN <<>>
  ELSE IF \E i \in 1..Len(values) : ~IsNum(values[i])
  THEN AsSeq([i \in 1..Len(values) |-> NaN])
  ELSE NormalizeNumbersP000(MapVals(values), scale)

normalizeValues(v, values, scale) ==
  IF v = "gem" THEN normalizeValuesGem(values, scale)
  ELSE normalizeValuesP000(values, scale)

-----------------------------------------------------------------------------
(* Coordinate mapping of updateLabels *)

\* variant of mapX: the linear branch does not subtract the low end of the
\* domain
mapXUnshifted(dataX, dom, scale, marginLeft, vbWidth) ==
  IF dom.k /= "num" THEN marginLeft
  ELSE IF dom.hi = dom.lo THEN marginLeft
  ELSE IF scale = "log"
  THEN IF dataX <= 0 \/ dom.lo <= 0 \/ dom.hi <= 0 THEN marginLeft
       ELSE LET logMin == Log10m(dom.lo) - 3000
                logMax == Log10m(dom.hi) - 3000
            IN IF logMin = logMax THEN marginLeft
               ELSE marginLeft
                    + MulDiv(Log10m(dataX) - 2000 - logMin, vbWidth, logMax - logMin)
  ELSE marginLeft + MulDiv(10 * dataX, vbWidth, dom.hi - dom.lo)

\* GoogleGem mapX: data value (hundredths) to a pixel column
mapX(dataX, dom, scale, marginLeft, vbWidth) ==
  IF dom.k /= "num" THEN marginLeft
  ELSE IF dom.hi = dom.lo THEN marginLeft
  ELSE IF scale = "log"
  THEN IF dataX <= 0 \/ dom.lo <= 0 \/ dom.hi <= 0 THEN marginLeft
       ELSE LET logMin == Log10m(dom.lo) - 3000
                logMax == Log10m(dom.hi) - 3000
            IN IF logMin = logMax THEN marginLeft
               ELSE marginLeft
                    + MulDiv(Log10m(dataX) - 2000 - logMin, vbWidth, logMax - logMin)
  ELSE marginLeft + MulDiv(10 * dataX - dom.lo, vbWidth, dom.hi - dom.lo)

\* variant of mapY: rows counted in the direction of the data, not inverted
mapYUpright(dataY, dom, scale, marginTop, vbHeight) ==
  IF dom.k /= "num" THEN marginTop
  ELSE IF dom.hi = dom.lo THEN marginTop
  ELSE IF scale = "log"
  THEN IF dataY <= 0 \/ dom.lo <= 0 \/ dom.hi <= 0 THEN marginTop
       ELSE LET logMin == Log10m(dom.lo) - 3000
                logMax == Log10m(dom.hi) - 3000
            IN IF logMin = logMax THEN marginTop
               ELSE marginTop
                    + MulDiv(Log10m(dataY) - 2000 - logMin, vbHeight, logMax - logMin)
  ELSE marginTop + MulDiv(10 * dataY - dom.lo, vbHeight, dom.hi - dom.lo)

\* GoogleGem mapY: data value (hundredths) to a pixel row, inverted
mapY(dataY, dom, scale, marginTop, vbHeight) ==
  IF dom.k /= "num" THEN marginTop + vbHeight
  ELSE IF dom.hi = dom.lo THEN marginTop + vbHeight
  ELSE IF scale = "log"
  THEN IF dataY <= 0 \/ dom.lo <= 0 \/ dom.hi <= 0 THEN marginTop + vbHeight
       ELSE LET logMin == Log10m(dom.lo) - 3000
                logMax == Log10m(dom.hi) - 3000
            IN IF logMin = logMax THEN marginTop + vbHeight
               ELSE marginTop + vbHeight
                    - MulDiv(Log10m(dataY) - 2000 - logMin, vbHeight, logMax - logMin)
  ELSE marginTop + vbHeight - MulDiv(10 * dataY - dom.lo, vbHeight, dom.hi - dom.lo)

\* part_000: the quotient (value - low) / (high - low) is a finite number
CoordFinite(val, dom) == dom.k = "num" /\ dom.hi /= dom.lo /\ IsNum(val)

\* part_000 screenPoints: one point; nan when a coordinate is not a finite
\* number (a NaN operand, or a division by a zero-width domain)
ScreenPointP000(pt, xDom, yDom, tol, plotWidth, plotHeight) ==
  [x |-> IF CoordFinite(pt.x, xDom)
         THEN tol.chartMarginLeft
              + MulDiv(10 * pt.x.v - xDom.lo, plotWidth, xDom.hi - xDom.lo)
         ELSE 0,
   y |-> IF CoordFinite(pt.y, yDom)
         THEN tol.chartMarginTop + plotHeight
              - MulDiv(10 * pt.y.v - yDom.lo, plotHeight, yDom.hi - yDom.lo)
         ELSE 0,
   nan |-> ~CoordFinite(pt.x, xDom) \/ ~CoordFinite(pt.y, yDom),
   xnan |-> ~CoordFinite(pt.x, xDom),
   ynan |-> ~CoordFinite(pt.y, yDom)]

\* GoogleGem calculateDensity; radius in tenths of a pixel
calculateDensityGem(point, allPoints, radius) ==
  LET count == Cardinality({i \in 1..Len(allPoints) :
                 100 * ((allPoints[i].x - point.x) * (allPoints[i].x - point.x)
                        + (allPoints[i].y - point.y) * (allPoints[i].y - point.y))
                   < radius * radius})
  IN IF count > 0 THEN count - 1 ELSE 0

\* part_000 calculateDensity; radius in tenths of a pixel
calculateDensityP000(point, allPoints, radius) ==
  Cardinality({i \in 1..Len(allPoints) :
     /\ radius > 0
     /\ 100 * ((allPoints[i].x - point.x) * (allPoints[i].x - point.x)
               + (allPoints[i].y - point.y) * (allPoints[i].y - point.y))
          < radius * radius})

\* GoogleGem doLabelsOverlap: boxes given by centre, width and height
doLabelsOverlap(a, b, padding) ==
  ~ \/ 2 * a.x + a.width + 2 * padding < 2 * b.x - b.width
    \/ 2 * b.x + b.width + 2 * padding < 2 * a.x - a.width
    \/ 2 * a.y + a.height + 2 * padding < 2 * b.y - b.height
    \/ 2 * b.y + b.height + 2 * padding < 2 * a.y - a.height

-----------------------------------------------------------------------------
(* createLabelSimulation (lib/force-simulation): the label layout          *)
(* simulator.  Positions are kept in tenths of a pixel while relaxing.     *)

SimPadding == 3          \* padding margin of the overlap test, pixels
SimFarThreshold == 100   \* a box further than this from its start is suppressed
SimRestoreDivisor == 10  \* the restoring force is 1/10 of the displacement
SimFixedPush == 10       \* push for coincident centres, tenths of a pixel

TruncDiv(a, b) == IF a >= 0 THEN a \div b ELSE -((-a) \div b)

\* the box of a relaxing label, in tenths of a pixel
SimBox(b) == [x |-> b.px, y |-> b.py, width |-> 10 * b.l.width,
              height |-> 10 * b.l.height]

\* repulsion on box i from box j along the vector between the centres:
\* forceStrength / distance, or a fixed push when the centres coincide
SimRepel(boxes, i, j, strength) ==
  LET dx == boxes[i].px - boxes[j].px
      dy == boxes[i].py - boxes[j].py
      d2 == dx * dx + dy * dy
  IN IF i = j \/ ~doLabelsOverlap(SimBox(boxes[i]), SimBox(boxes[j]), 10 * SimPadding)
     THEN <<0, 0>>
     ELSE IF d2 = 0 THEN <<IF i < j THEN -SimFixedPush ELSE SimFixedPush, 0>>
     ELSE <<TruncDiv(10 * strength * dx, d2), TruncDiv(10 * strength * dy, d2)>>

RECURSIVE SimForce(_, _, _, _)
\* the accumulated repulsion on box i from the boxes j..Len(boxes)
SimForce(boxes, i, j, strength) ==
  IF j > Len(boxes) THEN <<0, 0>>
  ELSE LET f == SimRepel(boxes, i, j, strength)
           r == SimForce(boxes, i, j + 1, strength)
       IN <<f[1] + r[1], f[2] + r[2]>>

\* one iteration: repulsion, restoring force, explicit Euler step
SimStep(boxes, strength) ==
  AsSeq([i \in 1..Len(boxes) |->
     LET f == SimForce(boxes, i, 1, strength)
         b == boxes[i]
     IN [b EXCEPT !.px = @ + f[1] + TruncDiv(b.hx - b.px, SimRestoreDivisor),
                  !.py = @ + f[2] + TruncDiv(b.hy - b.py, SimRestoreDivisor)]])

\* ten iterations
SimStep10(boxes, strength) ==
  SimStep(SimStep(SimStep(SimStep(SimStep(SimStep(SimStep(SimStep(SimStep(SimStep(
    boxes, strength), strength), strength), strength), strength), strength),
    strength), strength), strength), strength)

RECURSIVE SimRelax(_, _, _)
\* n iterations, taken ten at a time; when ten iterations lead back to the
\* same positions, so does every further ten
SimRelax(boxes, n, strength) ==
  IF n <= 0 THEN boxes
  ELSE IF n < 10 THEN SimRelax(SimStep(boxes, strength), n - 1, strength)
  ELSE LET next == SimStep10(boxes, strength)
       IN IF next = boxes THEN SimRelax(boxes, n % 10, strength)
          ELSE SimRelax(next, n - 10, strength)

Clamp(x, lo, hi) == Max2(lo, Min2(hi, x))

\* the settled label of a relaxed box: whole pixels, clamped into the bounds
SimSettle(b, bounds) ==
  [b.l EXCEPT !.x = Clamp(b.px \div 10, bounds.x0, bounds.x1),
              !.y = Clamp(b.py \div 10, bounds.y0, bounds.y1)]

\* number of other settled centres within the collision radius (tenths)
SimDensity(ls, i, radius) ==
  Cardinality({j \in 1..Len(ls) :
     /\ j /= i
     /\ radius > 0
     /\ 100 * ((ls[j].x - ls[i].x) * (ls[j].x - ls[i].x)
               + (ls[j].y - ls[i].y) * (ls[j].y - ls[i].y)) < radius * radius})

RECURSIVE SimKeepClean(_, _)
\* the labels of `ls`, in order, that overlap no label kept before them
SimKeepClean(kept, ls) ==
  IF ls = <<>> THEN kept
  ELSE IF \E k \in 1..Len(kept) : doLabelsOverlap(kept[k], ls[1], SimPadding)
       THEN SimKeepClean(kept, Tail(ls))
       ELSE SimKeepClean(Append(kept, ls[1]), Tail(ls))

\* density culling on entry: labels over the threshold never enter
SimEnter(labels, densityThreshold) ==
  LET NotDense(l) == l.density <= densityThreshold
  IN SelectSeq(labels, NotDense)

\* every entering label starts at its anchor plus the vertical bias, which
\* is also the home the restoring force pulls it to
SimStart(entering, yOffset) ==
  AsSeq([i \in 1..Len(entering) |->
           [l |-> entering[i],
            px |-> 10 * entering[i].x,
            py |-> 10 * (entering[i].y + yOffset),
            hx |-> 10 * entering[i].x,
            hy |-> 10 * (entering[i].y + yOffset)]])

SimSettleAll(relaxed, bounds) ==
  AsSeq([i \in 1..Len(relaxed) |-> SimSettle(relaxed[i], bounds)])

\* a settled label is placed unless it ended too far from its start or in
\* a region that is still too dense
SimPlaced(relaxed, settled, i, opts) ==
  /\ (10 * settled[i].x - relaxed[i].hx) * (10 * settled[i].x - relaxed[i].hx)
     + (10 * settled[i].y - relaxed[i].hy) * (10 * settled[i].y - relaxed[i].hy)
       <= 100 * SimFarThreshold * SimFarThreshold
  /\ SimDensity(settled, i, opts.collisionRadius) <= opts.densityThreshold

RECURSIVE SimPlacedFrom(_, _, _, _)
SimPlacedFrom(relaxed, settled, i, opts) ==
  IF i > Len(settled) THEN <<>>
  ELSE (IF SimPlaced(relaxed, settled, i, opts) THEN <<settled[i]>> ELSE <<>>)
       \o SimPlacedFrom(relaxed, settled, i + 1, opts)

\* the bounding rectangle: opts.bounds, else the width x height rectangle
SimBounds(width, height, opts) ==
  IF "bounds" \in DOMAIN opts THEN opts.bounds
  ELSE [x0 |-> 0, y0 |-> 0, x1 |-> width, y1 |-> height]

SimOutput(relaxed, bounds, opts) ==
  SimKeepClean(<<>>, SimPlacedFrom(relaxed, SimSettleAll(relaxed, bounds), 1, opts))

createLabelSimulation(labels, width, height, opts) ==
  IF labels = <<>> THEN <<>>
  ELSE SimOutput(SimRelax(SimStart(SimEnter(labels, opts.densityThreshold),
                                   opts.yOffset),
                          opts.iterations, opts.forceStrength),
                 SimBounds(width, height, opts), opts)

-----------------------------------------------------------------------------
(* updateLabels.  A closure `cl` holds what the useCallback captured:      *)
(* showLabels, the inputs of transformedData / xDomain / yDomain, and the  *)
(* tolerances.  The container is read when the callback runs.              *)

Closure(show, d, xm, xs, ys, zs, tol) ==
  [showLabels |-> show, data |-> d, xMetric |-> xm, xScale |-> xs,
   yScale |-> ys, zScale |-> zs, tolerances |-> tol]

PointsOf(v, cl) ==
  transformedData(v, cl.data, cl.xMetric, cl.xScale, cl.yScale, cl.zScale)
XCoords(pts) == AsSeq([i \in 1..Len(pts) |-> pts[i].x])
YCoords(pts) == AsSeq([i \in 1..Len(pts) |-> pts[i].y])
XDomainOf(v, cl) == getDomain(v, XCoords(PointsOf(v, cl)), cl.xScale)
YDomainOf(v, cl) == getDomain(v, YCoords(PointsOf(v, cl)), cl.yScale)

fontSize == 10
labelHeight == fontSize + 4
\* label.length * fontSize * 0.6
labelWidth(label) == (Len(label) * fontSize * 6) \div 10

\* GoogleGem: the label text of a company
LabelTextGem(company) ==
  IF company.f.tsx_code /= "" THEN company.f.tsx_code
  ELSE IF company.f.company_name /= "" THEN company.f.company_name
  ELSE "N/A"

\* GoogleGem: screen position of a scatter point
ScreenPointGem(pt, cl, xDom, yDom, cont) ==
  [x |-> mapX(pt.x.v, xDom, cl.xScale, cl.tolerances.chartMarginLeft, cont.w),
   y |-> mapY(pt.y.v, yDom, cl.yScale, cl.tolerances.chartMarginTop, cont.h)]

\* GoogleGem: the in-view test on a screen position (buffer 20)
InViewGem(sp, tol, cont) ==
  ~ \/ sp.x < tol.chartMarginLeft - 20
    \/ sp.x > tol.chartMarginLeft + cont.w + 20
    \/ sp.y < tol.chartMarginTop - 20
    \/ sp.y > tol.chartMarginTop + cont.h + 20

\* GoogleGem: the label box of text `label` for company `id` anchored at sp
LabelBoxOf(label, id, sp, tol) ==
  [id |-> label \o "_" \o ToString(id),
   text |-> label,
   x |-> sp.x,
   y |-> sp.y - tol.labelYOffset,
   width |-> labelWidth(label),
   height |-> labelHeight,
   dataX |-> sp.x,
   dataY |-> sp.y,
   density |-> 0,
   company |-> id]

\* GoogleGem: the label box of one scatter point
LabelBoxGem(pt, sp, tol) ==
  LabelBoxOf(LabelTextGem(pt.company), pt.company.f.id.v, sp, tol)

\* GoogleGem: the box of a point in view, nothing (filter(Boolean)) otherwise
LabelIfInView(pt, sp, tol, cont) ==
  IF InViewGem(sp, tol, cont) THEN <<LabelBoxGem(pt, sp, tol)>> ELSE <<>>

RECURSIVE InitialLabelDataFrom(_, _, _, _, _, _)
InitialLabelDataFrom(pts, i, cl, xDom, yDom, cont) ==
  IF i > Len(pts) THEN <<>>
  ELSE LabelIfInView(pts[i], ScreenPointGem(pts[i], cl, xDom, yDom, cont),
                     cl.tolerances, cont)
       \o InitialLabelDataFrom(pts, i + 1, cl, xDom, yDom, cont)

RECURSIVE FilterPointsXY(_, _, _)
\* the candidate points kept on their x and y alone
FilterPointsXY(pts, xs, ys) ==
  IF pts = <<>> THEN <<>>
  ELSE (IF /\ IsNum(pts[1].x) /\ IsNum(pts[1].y)
           /\ (xs = "linear" \/ pts[1].x.v > 0)
           /\ (ys = "linear" \/ pts[1].y.v > 0)
        THEN <<pts[1]>> ELSE <<>>)
       \o FilterPointsXY(Tail(pts), xs, ys)

RawPointsOf(d, xm) == AsSeq([i \in 1..Len(d) |-> RawPoint("gem", d[i], xm)])

\* variant of initialLabelData: a box for every company with an x and a y,
\* whether or not transformedData kept it
initialLabelDataAll(cl, cont) ==
  InitialLabelDataFrom(FilterPointsXY(RawPointsOf(cl.data, cl.xMetric), cl.xScale,
                                      cl.yScale),
                       1, cl, XDomainOf("gem", cl), YDomainOf("gem", cl), cont)

\* GoogleGem: initialLabelData
initialLabelData(cl, cont) ==
  InitialLabelDataFrom(PointsOf("gem", cl), 1, cl, XDomainOf("gem", cl),
                       YDomainOf("gem", cl), cont)

\* GoogleGem: the options handed to createLabelSimulation
SimOptionsGem(tol, cont) ==
  [collisionRadius |-> tol.labelCollisionRadius,
   forceStrength |-> tol.labelForceStrength,
   yOffset |-> 0,
   densityThreshold |-> tol.labelDensityThreshold,
   iterations |-> tol.labelSimulationIterations,
   bounds |-> [x0 |-> tol.chartMarginLeft, y0 |-> tol.chartMarginTop,
               x1 |-> tol.chartMarginLeft + cont.w,
               y1 |-> tol.chartMarginTop + cont.h]]

\* variant of RenderLabelGem: the width recomputed without the 0.6 factor
RenderLabelGemWide(label) ==
  [key |-> label.id, text |-> label.text, x |-> label.x, y |-> label.y,
   width |-> Len(label.text) * fontSize, height |-> label.height,
   dataX |-> label.dataX, dataY |-> label.dataY,
   line |-> (label.x - label.dataX) * (label.x - label.dataX)
            + (label.y - label.dataY) * (label.y - label.dataY) > 25,
   company |-> label.company]

\* GoogleGem: the element rendered for one simulated label
RenderLabelGem(label) ==
  LET dx == label.x - label.dataX
      dy == label.y - label.dataY
  IN [key |-> label.id, text |-> label.text, x |-> label.x, y |-> label.y,
      width |-> label.width, height |-> label.height,
      dataX |-> label.dataX, dataY |-> label.dataY,
      line |-> dx * dx + dy * dy > 25,
      company |-> label.company]

\* part_000: plot size from the container rectangle
plotWidthP000(tol, cont) == cont.w - tol.chartMarginLeft - tol.chartMarginRight - 32
plotHeightP000(tol, cont) == cont.h - tol.chartMarginTop - tol.chartMarginBottom - 32

ScreenPointsFrom(pts, xDom, yDom, tol, cont) ==
  AsSeq([i \in 1..Len(pts) |->
           ScreenPointP000(pts[i], xDom, yDom, tol, plotWidthP000(tol, cont),
                           plotHeightP000(tol, cont))])

\* part_000: screenPoints, in the order of transformedData
screenPointsP000(cl, cont) ==
  ScreenPointsFrom(PointsOf("p000", cl), XDomainOf("p000", cl),
                   YDomainOf("p000", cl), cl.tolerances, cont)

\* sort key of (a, b) => b.z - a.z
ZKey(pt) == IF IsNum(pt.z) THEN pt.z.v ELSE 0

RECURSIVE InsertByZ(_, _)
\* insert pt behind every element whose z is not smaller (stable, descending)
InsertByZ(sorted, pt) ==
  IF sorted = <<>> THEN <<pt>>
  ELSE IF ZKey(sorted[1]) >= ZKey(pt) THEN <<sorted[1]>> \o InsertByZ(Tail(sorted), pt)
  ELSE <<pt>> \o sorted

RECURSIVE SortByZ(_, _)
\* [...transformedData].sort((a, b) => b.z - a.z)
SortByZ(pts, n) == IF n = 0 THEN <<>> ELSE InsertByZ(SortByZ(pts, n - 1), pts[n])

\* part_000: the in-bounds test of the filter on a screen point
InBoundsP000(sp, tol, cont) ==
  /\ ~sp.nan
  /\ sp.x >= tol.chartMarginLeft
  /\ sp.x <= cont.w - tol.chartMarginRight - 16
  /\ sp.y >= tol.chartMarginTop
  /\ sp.y <= cont.h - tol.chartMarginBottom - 16

RECURSIVE FilterSortedP000(_, _, _, _, _)
\* .filter((_, i) => in bounds(screenPoints[i])), i the index in the sorted array
FilterSortedP000(sorted, i, sps, tol, cont) ==
  IF i > Len(sorted) THEN <<>>
  ELSE (IF InBoundsP000(sps[i], tol, cont) THEN <<sorted[i]>> ELSE <<>>)
       \o FilterSortedP000(sorted, i + 1, sps, tol, cont)

\* part_000: sortedData
sortedDataP000(pts, sps, tol, cont) ==
  FilterSortedP000(SortByZ(pts, Len(pts)), 1, sps, tol, cont)

\* part_000: the label box of sortedData[i], built from screenPoints[i]
LabelBoxP000(pt, sp, sps, tol) ==
  [id |-> pt.company.f.tsx_code,
   text |-> pt.company.f.tsx_code,
   x |-> sp.x - tol.chartMarginLeft,
   y |-> sp.y - tol.chartMarginTop + tol.labelYOffset,
   width |-> labelWidth(pt.company.f.tsx_code),
   height |-> labelHeight,
   dataX |-> sp.x,
   dataY |-> sp.y,
   density |-> calculateDensityP000(sp, sps, tol.labelCollisionRadius),
   company |-> pt.company.f.id.v]

LabelBoxesP000(sorted, sps, tol) ==
  AsSeq([i \in 1..Len(sorted) |-> LabelBoxP000(sorted[i], sps[i], sps, tol)])

LabelDataFrom(pts, sps, tol, cont) ==
  LabelBoxesP000(sortedDataP000(pts, sps, tol, cont), sps, tol)

\* part_000: labelData
labelDataP000(cl, cont) ==
  LabelDataFrom(PointsOf("p000", cl), screenPointsP000(cl, cont), cl.tolerances, cont)

\* part_000: the options handed to createLabelSimulation
SimOptionsP000(tol) ==
  [collisionRadius |-> tol.labelCollisionRadius,
   forceStrength |-> tol.labelForceStrength,
   yOffset |-> tol.labelYOffset,
   densityThreshold |-> tol.labelDensityThreshold,
   iterations |-> tol.labelSimulationIterations]

\* part_000: the element rendered for one simulated label, or nothing
RenderLabelP000(label, tol) ==
  LET labelCenterX == label.x + tol.chartMarginLeft
      labelCenterY == label.y + tol.chartMarginTop
      dx == labelCenterX - label.dataX
      dy == labelCenterY - label.dataY
  IN IF dx * dx + dy * dy < 15 * 15 THEN <<>>
     ELSE <<[key |-> label.id, text |-> label.id,
             x |-> labelCenterX, y |-> labelCenterY,
             width |-> label.width, height |-> label.height,
             dataX |-> label.dataX, dataY |-> label.dataY,
             line |-> TRUE,
             company |-> label.company]>>

RECURSIVE RenderAllP000(_, _)
RenderAllP000(labels, tol) ==
  IF labels = <<>> THEN <<>>
  ELSE RenderLabelP000(labels[1], tol) \o RenderAllP000(Tail(labels), tol)

\* The chart surface of the GoogleGem page exists when the chart is
\* rendered (not loading, no error, some point) in a laid-out container.
SurfacePresent(isLoading, err, nPoints, cont) ==
  ~isLoading /\ err = "" /\ nPoints > 0 /\ cont.w > 0 /\ cont.h > 0

\* What one run of updateLabels does: [set |-> FALSE] when it returns
\* without calling setLabelElements, else the elements it sets and the
\* boxes it handed to createLabelSimulation.
NoWrite == [set |-> FALSE, sim |-> FALSE, elements |-> <<>>, boxes |-> <<>>]
Cleared == [set |-> TRUE, sim |-> FALSE, elements |-> <<>>, boxes |-> <<>>]
Write(elements, boxes) ==
  [set |-> TRUE, sim |-> TRUE, elements |-> elements, boxes |-> boxes]

RenderAllGem(labels) ==
  AsSeq([i \in 1..Len(labels) |-> RenderLabelGem(labels[i])])

\* GoogleGem: simulatedLabels
SimulatedGem(boxes, tol, cont) ==
  createLabelSimulation(boxes, cont.w + tol.chartMarginLeft,
                        cont.h + tol.chartMarginTop, SimOptionsGem(tol, cont))

\* GoogleGem: the simulation and the rendering of updateLabels
LayoutGem(boxes, tol, cont) ==
  Write(RenderAllGem(SimulatedGem(boxes, tol, cont)), boxes)

updateLabelsGem(cl, cont, surface) ==
  IF ~cl.showLabels \/ Len(PointsOf("gem", cl)) = 0 THEN Cleared
  ELSE IF ~surface THEN NoWrite
  ELSE LayoutGem(initialLabelData(cl, cont), cl.tolerances, cont)

\* part_000: simulatedLabels
SimulatedP000(boxes, tol, cont) ==
  createLabelSimulation(boxes, plotWidthP000(tol, cont), plotHeightP000(tol, cont),
                        SimOptionsP000(tol))

\* part_000: the simulation and the rendering of updateLabels
LayoutP000(boxes, tol, cont) ==
  Write(RenderAllP000(SimulatedP000(boxes, tol, cont), tol), boxes)

updateLabelsP000(cl, cont) ==
  IF ~cl.showLabels THEN NoWrite
  ELSE LayoutP000(labelDataP000(cl, cont), cl.tolerances, cont)

updateLabels(v, cl, cont, surface) ==
  IF v = "gem" THEN updateLabelsGem(cl, cont, surface) ELSE updateLabelsP000(cl, cont)

-----------------------------------------------------------------------------
(* Data the fetch can return; metric values in hundredths *)

\* three companies; bubble size order differs from list order, two share a ticker
DS_Mixed ==
  <<Company(1, "AAA", "Alpha", Num(100), Num(300), Num(200), Num(100)),
    Company(2, "DUP", "Beta", Num(500), Num(100), Num(400), Num(300)),
    Company(3, "DUP", "Gamma", Num(900), Num(900), Num(300), Num(200))>>

\* two plottable companies, one of them without ticker, and between them
\* one without production figure
DS_Sparse ==
  <<Company(4, "BB", "Bravo", Num(200), Num(250), Num(100), Num(50)),
    Company(5, "CC", "Cee", Num(400), Num(450), Num(300), Null),
    Company(6, "", "Delta", Num(600), Num(650), Num(500), Num(80))>>

\* three near-coincident points (1,1), (1.01,1), (1.02,1) and a distant one
DS_Dense ==
  <<Company(11, "N1", "Near1", Num(100), Num(100), Num(100), Num(400)),
    Company(12, "N2", "Near2", Num(101), Num(101), Num(100), Num(300)),
    Company(13, "N3", "Near3", Num(102), Num(102), Num(100), Num(200)),
    Company(14, "FAR", "Far", Num(10000), Num(10000), Num(10000), Num(100))>>

\* seven companies on one and the same data point
DS_Cluster ==
  <<Company(21, "K1", "Kilo1", Num(500), Num(500), Num(500), Num(700)),
    Company(22, "K2", "Kilo2", Num(500), Num(500), Num(500), Num(600)),
    Company(23, "K3", "Kilo3", Num(500), Num(500), Num(500), Num(500)),
    Company(24, "K4", "Kilo4", Num(500), Num(500), Num(500), Num(400)),
    Company(25, "K5", "Kilo5", Num(500), Num(500), Num(500), Num(300)),
    Company(26, "K6", "Kilo6", Num(500), Num(500), Num(500), Num(200)),
    Company(27, "K7", "Kilo7", Num(500), Num(500), Num(500), Num(100))>>

\* two neighbours on one row, about thirty pixels apart on a linear axis
DS_Adjacent ==
  <<Company(31, "ABCD", "Able", Num(1000), Num(1000), Num(100), Num(300)),
    Company(32, "EFGH", "Echo", Num(1040), Num(1040), Num(100), Num(200)),
    Company(33, "IJKL", "India", Num(2000), Num(2000), Num(200), Num(100))>>

\* the record of the second company has no enterprise_value_value field
DS_Partial ==
  <<Company(41, "PA", "Papa", Num(300), Num(300), Num(200), Num(100)),
    Company(42, "PB", "Quebec", Num(600), Undef, Num(400), Num(200)),
    Company(43, "PC", "Romeo", Num(900), Num(900), Num(600), Num(300))>>

\* zero and negative figures, and a record without production figure
DS_Signed ==
  <<Company(51, "ZA", "Sierra", Num(0), Num(100), Num(200), Num(100)),
    Company(52, "ZB", "Tango", Num(400), Num(400), Num(-300), Num(200)),
    Company(53, "ZC", "Uniform", Num(500), Num(500), Num(500), Num(0)),
    Company(54, "ZD", "Victor", Num(700), Num(700), Num(700), Undef),
    Company(55, "ZE", "Whiskey", Num(800), Num(800), Num(800), Num(400))>>

Currencies == {"USD", "CAD"}
FetchResults == {DS_Mixed, DS_Sparse, <<>>}
LayoutData == {DS_Mixed, DS_Sparse, DS_Dense, DS_Cluster, DS_Adjacent, DS_Partial, <<>>}

ContainerNormal == [w |-> 1000, h |-> 632]
ContainerSizes == {ContainerNormal, [w |-> 600, h |-> 632], [w |-> 0, h |-> 0]}

\* the slider edits of the tolerance panel that the model performs
ToleranceEdits(v, tol) ==
  IF v = "gem"
  THEN {[tol EXCEPT !.labelCollisionRadius = 50], [tol EXCEPT !.labelYOffset = 0]}
  ELSE {[tol EXCEPT !.labelCollisionRadius = 50, !.labelDensityThreshold = 2],
        [tol EXCEPT !.labelYOffset = 0]}

-----------------------------------------------------------------------------
(* The page as a state machine *)

CurrentClosure == Closure(showLabels, data, xMetric, xScale, yScale, zScale, tolerances)

\* no utility is being called on its own
NoProbe == [fn |-> "none", done |-> FALSE]

NoRun == [ran |-> FALSE, set |-> FALSE, sim |-> FALSE, cl |-> CurrentClosure,
          cont |-> container, surface |-> FALSE]

Init ==
  /\ variant \in {"gem", "p000"}
  /\ currency = "USD"
  /\ inflight = <<"USD">>
  /\ data = <<>>
  /\ loading = TRUE
  /\ error = ""
  /\ xMetric = "market_cap_value"
  /\ xScale = (IF variant = "gem" THEN "log" ELSE "linear")
  /\ yScale = (IF variant = "gem" THEN "log" ELSE "linear")
  /\ zScale = "linear"
  /\ zoom = 100
  /\ showLabels = TRUE
  /\ tolerances = defaultTolerances(variant)
  /\ container = ContainerNormal
  /\ timers = <<[cl |-> CurrentClosure, cur |-> TRUE]>>
  /\ labelElements = <<>>
  /\ simInput = <<>>
  /\ lastRun = NoRun
  /\ dirty = FALSE
  /\ nEvents = 0
  /\ probe = NoProbe

\* The effect on a new updateLabels callback.  GoogleGem: the cleanup
\* clears the pending timer, then setTimeout(updateLabels, 50).  part_000:
\* a fresh debounce(updateLabels, 100) is called; the timer of the previous
\* debounce stays pending.
Scheduled(cl) ==
  IF variant = "gem" THEN <<[cl |-> cl, cur |-> TRUE]>>
  ELSE AsSeq([i \in 1..Len(timers) |-> [timers[i] EXCEPT !.cur = FALSE]])
       \o <<[cl |-> cl, cur |-> TRUE]>>

CanSchedule == variant = "gem" \/ Len(timers) < MaxTimers

IsStale(t) == ~t.cur

\* part_000, window resize: the current debounce clears its own timer and
\* sets a new one
Rearmed == SelectSeq(timers, IsStale) \o <<[cl |-> CurrentClosure, cur |-> TRUE]>>

Event == nEvents < MaxEvents /\ nEvents' = nEvents + 1

RemoveAt(seq, i) == SubSeq(seq, 1, i - 1) \o SubSeq(seq, i + 1, Len(seq))

\* the currency changes: the fetch effect runs
ChangeCurrency(c) ==
  /\ Event
  /\ c /= currency
  /\ Len(inflight) < MaxInflight
  /\ currency' = c
  /\ inflight' = Append(inflight, c)
  /\ loading' = TRUE
  /\ error' = ""
  /\ IF variant = "gem"
     THEN /\ data' = <<>>
          /\ timers' = Scheduled([CurrentClosure EXCEPT !.data = <<>>])
          /\ dirty' = TRUE
     ELSE UNCHANGED <<data, timers, dirty>>
  /\ UNCHANGED <<probe, variant, xMetric, xScale, yScale, zScale, zoom, showLabels,
                 tolerances, container, labelElements, simInput, lastRun>>

\* getCompaniesForScatterChart resolves
FetchSucceed(i, companies) ==
  /\ i \in 1..Len(inflight)
  /\ CanSchedule
  /\ inflight' = RemoveAt(inflight, i)
  /\ data' = companies
  /\ loading' = FALSE
  /\ timers' = Scheduled([CurrentClosure EXCEPT !.data = companies])
  /\ dirty' = TRUE
  /\ UNCHANGED <<probe, variant, currency, error, xMetric, xScale, yScale, zScale, zoom,
                 showLabels, tolerances, container, labelElements, simInput,
                 lastRun, nEvents>>

\* getCompaniesForScatterChart rejects
FetchFail(i) ==
  /\ i \in 1..Len(inflight)
  /\ inflight' = RemoveAt(inflight, i)
  /\ error' = "An error occurred while fetching data"
  /\ loading' = FALSE
  /\ UNCHANGED <<probe, variant, currency, data, xMetric, xScale, yScale, zScale, zoom,
                 showLabels, tolerances, container, timers, labelElements,
                 simInput, lastRun, dirty, nEvents>>

\* part_000, the Retry control shown with the error: setData([]).  The
\* new array makes transformedData and updateLabels new ones; the fetch
\* effect depends on currency alone and does not run.
Retry ==
  /\ Event
  /\ variant = "p000"
  /\ error /= ""
  /\ CanSchedule
  /\ data' = <<>>
  /\ timers' = Scheduled([CurrentClosure EXCEPT !.data = <<>>])
  /\ dirty' = TRUE
  /\ UNCHANGED <<probe, variant, currency, inflight, loading, error, xMetric, xScale,
                 yScale, zScale, zoom, showLabels, tolerances, container,
                 labelElements, simInput, lastRun>>

SetXMetric(m) ==
  /\ Event
  /\ m /= xMetric
  /\ CanSchedule
  /\ xMetric' = m
  /\ timers' = Scheduled([CurrentClosure EXCEPT !.xMetric = m])
  /\ dirty' = TRUE
  /\ UNCHANGED <<probe, variant, currency, inflight, data, loading, error, xScale, yScale,
                 zScale, zoom, showLabels, tolerances, container, labelElements,
                 simInput, lastRun>>

SetXScale(sc) ==
  /\ Event
  /\ sc /= xScale
  /\ CanSchedule
  /\ xScale' = sc
  /\ timers' = Scheduled([CurrentClosure EXCEPT !.xScale = sc])
  /\ dirty' = TRUE
  /\ UNCHANGED <<probe, variant, currency, inflight, data, loading, error, xMetric, yScale,
                 zScale, zoom, showLabels, tolerances, container, labelElements,
                 simInput, lastRun>>

SetYScale(sc) ==
  /\ Event
  /\ sc /= yScale
  /\ CanSchedule
  /\ yScale' = sc
  /\ timers' = Scheduled([CurrentClosure EXCEPT !.yScale = sc])
  /\ dirty' = TRUE
  /\ UNCHANGED <<probe, variant, currency, inflight, data, loading, error, xMetric, xScale,
                 zScale, zoom, showLabels, tolerances, container, labelElements,
                 simInput, lastRun>>

SetTolerances(tol) ==
  /\ Event
  /\ tol /= tolerances
  /\ CanSchedule
  /\ tolerances' = tol
  /\ timers' = Scheduled([CurrentClosure EXCEPT !.tolerances = tol])
  /\ dirty' = TRUE
  /\ UNCHANGED <<probe, variant, currency, inflight, data, loading, error, xMetric, xScale,
                 yScale, zScale, zoom, showLabels, container, labelElements,
                 simInput, lastRun>>

\* a reset that leaves the vertical offset as the slider set it
ResetTolerancesKeepOffset ==
  SetTolerances([defaultTolerances(variant)
                   EXCEPT !.labelYOffset = tolerances.labelYOffset])

\* the reset button of the tolerance panel: setTolerances(defaultTolerances)
ResetTolerances == SetTolerances(defaultTolerances(variant))

ToggleShowLabels ==
  /\ Event
  /\ CanSchedule
  /\ showLabels' = ~showLabels
  /\ timers' = Scheduled([CurrentClosure EXCEPT !.showLabels = ~showLabels])
  /\ UNCHANGED <<probe, variant, currency, inflight, data, loading, error, xMetric, xScale,
                 yScale, zScale, zoom, tolerances, container, labelElements,
                 simInput, lastRun, dirty>>

\* setZoom(z): updateLabels does not depend on zoom, no effect runs
ZoomTo(z) ==
  /\ z /= zoom
  /\ zoom' = z
  /\ dirty' = TRUE
  /\ UNCHANGED <<probe, variant, currency, inflight, data, loading, error, xMetric, xScale,
                 yScale, zScale, showLabels, tolerances, container, timers,
                 labelElements, simInput, lastRun>>

SetZoom(z) == Event /\ ZoomTo(z)

\* a zoom-in step without the upper limit
zoomInUnclamped(z) == (z * 12) \div 10

\* Math.min(prev * 1.2, 5) and Math.max(prev / 1.2, 0.5), zoom in hundredths
zoomIn(z) == Min2((z * 12) \div 10, 500)
zoomOut(z) == Max2((z * 10) \div 12, 50)

handleZoomIn == SetZoom(zoomIn(zoom))
handleZoomOut == SetZoom(zoomOut(zoom))
handleResetZoom == SetZoom(100)

\* the browser lays the container out at another size (window resize)
Resize(size) ==
  /\ Event
  /\ size /= container
  /\ variant = "p000" => Len(SelectSeq(timers, IsStale)) < MaxTimers
  /\ container' = size
  /\ dirty' = TRUE
  /\ timers' = IF variant = "gem" THEN timers ELSE Rearmed
  /\ UNCHANGED <<probe, variant, currency, inflight, data, loading, error, xMetric, xScale,
                 yScale, zScale, zoom, showLabels, tolerances, labelElements,
                 simInput, lastRun>>

\* the state after a run of updateLabels with result res
Commit(res, t, surface) ==
  /\ labelElements' = (IF res.set THEN res.elements ELSE labelElements)
  /\ simInput' = (IF res.sim THEN res.boxes ELSE simInput)
  /\ lastRun' = [ran |-> TRUE, set |-> res.set, sim |-> res.sim, cl |-> t.cl,
                 cont |-> container, surface |-> surface]
  /\ dirty' = (IF t.cl = CurrentClosure THEN FALSE ELSE dirty)

RunTimer(t, surface) == Commit(updateLabels(variant, t.cl, container, surface), t, surface)

\* the oldest pending timer expires and runs its updateLabels
FireTimer ==
  /\ timers /= <<>>
  /\ RunTimer(Head(timers),
              SurfacePresent(loading, error, Len(PointsOf(variant, CurrentClosure)),
                             container))
  /\ timers' = Tail(timers)
  /\ UNCHANGED <<probe, variant, currency, inflight, data, loading, error, xMetric, xScale,
                 yScale, zScale, zoom, showLabels, tolerances, container, nEvents>>

Next ==
  \/ \E c \in Currencies : ChangeCurrency(c)
  \/ \E i \in 1..MaxInflight, companies \in FetchResults : FetchSucceed(i, companies)
  \/ \E i \in 1..MaxInflight : FetchFail(i)
  \/ Retry
  \/ \E m \in XMetrics : SetXMetric(m)
  \/ \E sc \in {"linear", "log"} : SetXScale(sc)
  \/ \E sc \in {"linear", "log"} : SetYScale(sc)
  \/ \E tol \in ToleranceEdits(variant, tolerances) : SetTolerances(tol)
  \/ ResetTolerances
  \/ ToggleShowLabels
  \/ handleZoomIn
  \/ handleZoomOut
  \/ handleResetZoom
  \/ \E size \in ContainerSizes : Resize(size)
  \/ FireTimer

Spec == Init /\ [][Next]_vars

-----------------------------------------------------------------------------
(* One layout pass on its own: the page with data loaded and its inputs   *)
(* chosen, the timer of the effect pending.                               *)

InitLayout ==
  /\ variant \in {"gem", "p000"}
  /\ currency = "USD"
  /\ inflight = <<>>
  /\ data \in LayoutData
  /\ loading = FALSE
  /\ error = ""
  /\ xMetric \in XMetrics
  /\ xScale \in {"linear", "log"}
  /\ yScale \in {"linear", "log"}
  /\ zScale = "linear"
  /\ zoom = 100
  /\ showLabels = TRUE
  /\ tolerances \in {defaultTolerances(variant)}
                       \cup ToleranceEdits(variant, defaultTolerances(variant))
  /\ container \in ContainerSizes
  /\ timers = <<[cl |-> CurrentClosure, cur |-> TRUE]>>
  /\ labelElements = <<>>
  /\ simInput = <<>>
  /\ lastRun = NoRun
  /\ dirty = TRUE
  /\ nEvents = 0
  /\ probe = NoProbe

NextLayout == FireTimer

SpecLayout == InitLayout /\ [][NextLayout]_vars

-----------------------------------------------------------------------------
(* The numeric utilities called on their own: transformedData, getDomain,  *)
(* the coordinate mapping and calculateDensity.  The arguments of the call *)
(* are drawn in the initial state, one action per utility applies it.      *)

pageVars == <<variant, currency, inflight, data, loading, error, xMetric, xScale,
              yScale, zScale, zoom, showLabels, tolerances, container, timers,
              labelElements, simInput, lastRun, dirty, nEvents>>

Pending(fn, in) == [fn |-> fn, done |-> FALSE, in |-> in, out |-> [k |-> "none"]]
Returned(p, out) == [p EXCEPT !.done = TRUE, !.out = out]

Scales == {"linear", "log"}

\* arguments of transformedData
TransformData == {DS_Sparse, DS_Partial, DS_Signed, <<>>}
TransformProbes ==
  {Pending("transformedData", [data |-> d, xMetric |-> xm, xScale |-> xs,
                               yScale |-> ys, zScale |-> zs]) :
     d \in TransformData, xm \in XMetrics, xs \in Scales, ys \in Scales, zs \in Scales}

\* arguments of getDomain: up to MaxValues values, in hundredths
DomainValues == {Num(-500), Num(0), Num(100), Num(500), Num(2000), NaN}
ValueSeqs == UNION {{AsSeq(f) : f \in [1..k -> DomainValues]} : k \in 0..MaxValues}
DomainProbes ==
  {Pending("getDomain", [vals |-> vs, scale |-> sc]) : vs \in ValueSeqs, sc \in Scales}

\* arguments of normalizeValues: the same sequences of values
NormalizeProbes ==
  {Pending("normalizeValues", [vals |-> vs, scale |-> sc]) :
     vs \in ValueSeqs, sc \in Scales}

\* arguments of the coordinate mapping: two values (hundredths), the domains
\* of the two axes (thousandths), the scales, the plot rectangle (pixels)
MapValues == {-500, 0, 100, 500, 1000, 5000}
UnitDomain == NumDomain(0, 10000)
DomainPairs ==
  {<<UnitDomain, UnitDomain>>,
   <<NumDomain(500, 100000), NumDomain(100, 20000)>>,
   <<NumDomain(5000, 5000), UnitDomain>>,
   <<NumDomain(-5000, 5000), NumDomain(500, 100000)>>,
   <<AutoDomain, AutoDomain>>,
   <<NaNDomain, UnitDomain>>}
UnitRect == [ox |-> 0, oy |-> 0, w |-> 100, h |-> 100]
PlotRects == {UnitRect, [ox |-> 80, oy |-> 20, w |-> 1000, h |-> 600]}
MapProbes ==
  {Pending("map", [a |-> a, b |-> b, xDom |-> dp[1], yDom |-> dp[2],
                   xScale |-> xs, yScale |-> ys, rect |-> r]) :
     a \in MapValues, b \in MapValues, dp \in DomainPairs, xs \in Scales,
     ys \in Scales, r \in PlotRects}

\* arguments of calculateDensity: anchors (pixels), the index of the point
\* among them, the radius (tenths of a pixel)
Anchor(x, y) == [x |-> x, y |-> y]
AnchorSets ==
  {<<Anchor(100, 100)>>,
   <<Anchor(100, 100), Anchor(103, 104), Anchor(200, 100)>>,
   <<Anchor(100, 100), Anchor(100, 100), Anchor(102, 100), Anchor(300, 300)>>}
Radii == {0, 50, 60, 1500}
DensityProbes ==
  UNION {{Pending("calculateDensity", [allPoints |-> as, i |-> i, radius |-> r]) :
            i \in 1..Len(as), r \in Radii} : as \in AnchorSets}

InitCalc ==
  /\ variant \in {"gem", "p000"}
  /\ currency = "USD"
  /\ inflight = <<>>
  /\ data = <<>>
  /\ loading = FALSE
  /\ error = ""
  /\ xMetric = "market_cap_value"
  /\ xScale = "linear"
  /\ yScale = "linear"
  /\ zScale = "linear"
  /\ zoom = 100
  /\ showLabels = TRUE
  /\ tolerances = defaultTolerances(variant)
  /\ container = ContainerNormal
  /\ timers = <<>>
  /\ labelElements = <<>>
  /\ simInput = <<>>
  /\ lastRun = NoRun
  /\ dirty = FALSE
  /\ nEvents = 0
  /\ \/ probe \in TransformProbes
     \/ probe \in DomainProbes
     \/ probe \in NormalizeProbes
     \/ probe \in MapProbes
     \/ probe \in DensityProbes

CallTransformedData ==
  /\ probe.fn = "transformedData" /\ ~probe.done
  /\ probe' = Returned(probe,
                 [pts |-> transformedData(variant, probe.in.data, probe.in.xMetric,
                                          probe.in.xScale, probe.in.yScale,
                                          probe.in.zScale)])
  /\ UNCHANGED pageVars

CallGetDomain ==
  /\ probe.fn = "getDomain" /\ ~probe.done
  /\ probe' = Returned(probe, getDomain(variant, probe.in.vals, probe.in.scale))
  /\ UNCHANGED pageVars

CallNormalizeValues ==
  /\ probe.fn = "normalizeValues" /\ ~probe.done
  /\ probe' = Returned(probe,
                 [vals |-> normalizeValues(variant, probe.in.vals, probe.in.scale)])
  /\ UNCHANGED pageVars

\* the screen position of the data point (val, val): mapX / mapY of
\* GoogleGem, the screenPoints expression of part_000
MapPoint(v, val, in) ==
  IF v = "gem"
  THEN [x |-> mapX(val, in.xDom, in.xScale, in.rect.ox, in.rect.w),
        y |-> mapY(val, in.yDom, in.yScale, in.rect.oy, in.rect.h),
        nan |-> FALSE, xnan |-> FALSE, ynan |-> FALSE]
  ELSE ScreenPointP000([x |-> Num(val), y |-> Num(val)], in.xDom, in.yDom,
                       [chartMarginLeft |-> in.rect.ox, chartMarginTop |-> in.rect.oy],
                       in.rect.w, in.rect.h)

CallMap ==
  /\ probe.fn = "map" /\ ~probe.done
  /\ probe' = Returned(probe, [a |-> MapPoint(variant, probe.in.a, probe.in),
                               b |-> MapPoint(variant, probe.in.b, probe.in)])
  /\ UNCHANGED pageVars

calculateDensity(v, point, allPoints, radius) ==
  IF v = "gem" THEN calculateDensityGem(point, allPoints, radius)
  ELSE calculateDensityP000(point, allPoints, radius)

CallCalculateDensity ==
  /\ probe.fn = "calculateDensity" /\ ~probe.done
  /\ probe' = Returned(probe,
                 [n |-> calculateDensity(variant, probe.in.allPoints[probe.in.i],
                                         probe.in.allPoints, probe.in.radius)])
  /\ UNCHANGED pageVars

NextCalc ==
  \/ CallTransformedData
  \/ CallGetDomain
  \/ CallNormalizeValues
  \/ CallMap
  \/ CallCalculateDensity

SpecCalc == InitCalc /\ [][NextCalc]_vars

-----------------------------------------------------------------------------
(* Properties of one layout pass (checked under SpecLayout)                *)

\* the scatter points of the last layout pass and their screen positions
LastPoints == PointsOf(variant, lastRun.cl)

ScreenPointsGem(pts, cl, xDom, yDom, cont) ==
  AsSeq([i \in 1..Len(pts) |-> ScreenPointGem(pts[i], cl, xDom, yDom, cont)])

LastAnchors ==
  IF variant = "gem"
  THEN ScreenPointsGem(LastPoints, lastRun.cl, XDomainOf("gem", lastRun.cl),
                       YDomainOf("gem", lastRun.cl), lastRun.cont)
  ELSE screenPointsP000(lastRun.cl, lastRun.cont)

NoOverlap(boxes) ==
  \A i, j \in 1..Len(boxes) :
     i < j => ~doLabelsOverlap(boxes[i], boxes[j], SimPadding)

OwnAnchor(box, pts, anchors) ==
  \E i \in 1..Len(pts) :
     /\ pts[i].company.f.id.v = box.company
     /\ anchors[i].x = box.dataX
     /\ anchors[i].y = box.dataY

AnchorsAreOwn(boxes, pts, anchors) ==
  \A b \in 1..Len(boxes) : OwnAnchor(boxes[b], pts, anchors)

\* C2: every label box built by updateLabels is anchored at the mapped
\* screen position of the data point whose ticker it carries
C2_AnchorIsOwnPoint == lastRun.sim => AnchorsAreOwn(simInput, LastPoints, LastAnchors)

\* number of other anchors strictly within the radius (tenths of a pixel)
AnchorDensity(e, anchors, radius) ==
  Cardinality({j \in 1..Len(anchors) :
     /\ radius > 0
     /\ ~(anchors[j].x = e.dataX /\ anchors[j].y = e.dataY
          /\ j = CHOOSE k \in 1..Len(anchors) :
                   anchors[k].x = e.dataX /\ anchors[k].y = e.dataY)
     /\ 100 * ((anchors[j].x - e.dataX) * (anchors[j].x - e.dataX)
               + (anchors[j].y - e.dataY) * (anchors[j].y - e.dataY))
          < radius * radius})

NoDenseAnchor(elements, anchors, tol) ==
  \A i \in 1..Len(elements) :
     AnchorDensity(elements[i], anchors, tol.labelCollisionRadius)
       <= tol.labelDensityThreshold

\* C3: no rendered label belongs to an anchor whose density (other anchors
\* within labelCollisionRadius) exceeds labelDensityThreshold
C3_DenseAnchorsDropped ==
  lastRun.sim => NoDenseAnchor(labelElements, LastAnchors, lastRun.cl.tolerances)

\* C4: the boxes handed to createLabelSimulation are no more than the
\* scatter points of transformedData
C4_BoxesAtMostPoints == lastRun.sim => Len(simInput) <= Len(LastPoints)

\* C4 witness: a pass in which the filter removed some candidates, not all
C4_Witness ==
  /\ lastRun.sim
  /\ Len(simInput) >= 1
  /\ Len(simInput) < Len(LastPoints)

\* C5: within one layout pass the ids of the label boxes are distinct
C5_DistinctIds ==
  lastRun.sim =>
    \A i, j \in 1..Len(simInput) : i /= j => simInput[i].id /= simInput[j].id

\* a numeric pair low < high, positive on a log axis
ValidDomain(dom, scale) ==
  dom.k = "num" /\ dom.lo < dom.hi /\ (scale = "log" => dom.lo > 0)

\* C12: in a state with at least one scatter point the x and y domains are
\* numeric pairs with low < high, never NaN, and low > 0 on a log axis
C12_DomainsValid ==
  Len(PointsOf(variant, CurrentClosure)) >= 1 =>
    /\ ValidDomain(XDomainOf(variant, CurrentClosure), xScale)
    /\ ValidDomain(YDomainOf(variant, CurrentClosure), yScale)

-----------------------------------------------------------------------------
(* Properties of the orchestration (checked under Spec)                    *)

\* the plot geometry a run of updateLabels found
GeometryAvailable(run) ==
  IF variant = "gem" THEN run.surface ELSE run.cont.w > 0 /\ run.cont.h > 0

\* C6: after a run of updateLabels with zero scatter points, or with the
\* plot geometry unavailable, labelElements is empty
C6_DegenerateRunClears ==
  (lastRun.ran /\ (Len(LastPoints) = 0 \/ ~GeometryAvailable(lastRun)))
    => labelElements = <<>>

\* C7: while a changed layout input has not been used by a run of
\* updateLabels, such a run is pending
C7_ChangeSchedulesRun == dirty => timers /= <<>>

\* C8: at most one recomputation timer is pending at any time
C8_OneTimerPending == Len(timers) <= 1

\* what updateLabels yields on the inputs of the current state
FreshRun ==
  updateLabels(variant, CurrentClosure, container,
               SurfacePresent(loading, error, Len(PointsOf(variant, CurrentClosure)),
                              container))

ShowsResultOf(res) == res.set => labelElements = res.elements

\* C9: once no timer is pending, labelElements is the result of
\* updateLabels on the most recent inputs
C9_IdleShowsLatest == (timers = <<>> /\ lastRun.ran) => ShowsResultOf(FreshRun)

\* C10: after a failed fetch, once no fetch and no recomputation is
\* pending, there are no scatter points and no labels
C10_FailureEmptiesLayout ==
  (error /= "" /\ inflight = <<>> /\ timers = <<>>)
    => (Len(PointsOf(variant, CurrentClosure)) = 0 /\ labelElements = <<>>)

-----------------------------------------------------------------------------
(* Properties of the numeric utilities (checked under SpecCalc)            *)

Called(fn) == probe.fn = fn /\ probe.done

\* the value a record holds for a metric: Undef when a segment of the path
\* does not exist on the record
MetricOf(company, key) ==
  LET path == MetricPath(key)
  IN IF path[1] \notin DOMAIN company.f THEN Undef
     ELSE IF company.f[path[1]].t /= "obj" THEN Undef
     ELSE IF path[2] \notin DOMAIN company.f[path[1]].f THEN Undef
     ELSE company.f[path[1]].f[path[2]]

UsableOn(val, scale) == IsNum(val) /\ (scale = "log" => val.v > 0)

\* the company has a usable value on all three axes
Qualifies(company, in) ==
  /\ UsableOn(MetricOf(company, in.xMetric), in.xScale)
  /\ UsableOn(MetricOf(company, YMetricKey), in.yScale)
  /\ UsableOn(MetricOf(company, ZMetricKey), in.zScale)

Kept(company, pts) == \E i \in 1..Len(pts) : pts[i].company = company

\* C11: a company yields a scatter point exactly when its x, y and z values
\* are present numbers, positive on every axis whose scale is log; a
\* missing value is never kept
C11_PointIffUsable ==
  Called("transformedData") =>
    \A i \in 1..Len(probe.in.data) :
       Kept(probe.in.data[i], probe.out.pts) <=> Qualifies(probe.in.data[i], probe.in)

\* the values (hundredths) a domain is computed from: the finite ones, on a
\* log axis the positive ones
UsedValues(vals, scale) ==
  {vals[i].v : i \in {j \in 1..Len(vals) : UsableOn(vals[j], scale)}}

Inside(dom, val) == dom.lo < 10 * val /\ 10 * val < dom.hi

\* C13: every value a numeric domain was computed from lies strictly inside
\* it, low < v < high, on a linear and on a log axis
C13_DomainPadsData ==
  (Called("getDomain") /\ probe.out.k = "num") =>
    \A val \in UsedValues(probe.in.vals, probe.in.scale) : Inside(probe.out, val)

\* C14: getDomain returns the 'auto' sentinel exactly when it has no usable
\* value (none, none finite, or none positive on a log axis), and never NaN
C14_AutoIffNoUsable ==
  Called("getDomain") =>
    /\ probe.out.k = "auto" <=> UsedValues(probe.in.vals, probe.in.scale) = {}
    /\ probe.out.k /= "nan"

\* the linear domain of values with minimum min and maximum max
\* (hundredths) pads both ends alike, by at least a tenth of the range,
\* and by max(0.1 * |min|, 1) when all values are equal
LinearPadded(dom, min, max) ==
  /\ dom.k = "num"
  /\ 10 * min - dom.lo = dom.hi - 10 * max
  /\ min < max => 10 * min - dom.lo >= max - min
  /\ min = max => 10 * min - dom.lo = Max2(Abs(min), 1000)

\* C15: for linear scale getDomain returns [min - pad, max + pad], pad at
\* least 0.1 * (max - min), and pad = max(0.1 * |min|, 1) when min = max
C15_LinearPadding ==
  (/\ Called("getDomain")
   /\ probe.in.scale = "linear"
   /\ probe.in.vals /= <<>>
   /\ \A i \in 1..Len(probe.in.vals) : IsNum(probe.in.vals[i])) =>
    LinearPadded(probe.out, SeqMin(MapVals(probe.in.vals)), SeqMax(MapVals(probe.in.vals)))

\* (log10(v) - log10(low)) / (log10(high) - log10(low)) * size, in whole
\* pixels; v in hundredths, the domain in thousandths
LogOffset(val, dom, size) ==
  MulDiv(Log10m(val) - 2000 - (Log10m(dom.lo) - 3000), size,
         Log10m(dom.hi) - Log10m(dom.lo))

\* the screen point sp of the data point (val, val) follows the log formula
\* on every log axis with a valid domain
LogMapped(val, sp, in) ==
  /\ (in.xScale = "log" /\ ValidDomain(in.xDom, "log")) =>
       (~sp.xnan /\ sp.x = in.rect.ox + LogOffset(val, in.xDom, in.rect.w))
  /\ (in.yScale = "log" /\ ValidDomain(in.yDom, "log")) =>
       (~sp.ynan /\ sp.y = in.rect.oy + in.rect.h - LogOffset(val, in.yDom, in.rect.h))

\* C16: on a log axis the screen coordinate of a positive value v is
\* origin + (log10(v) - log10(low)) / (log10(high) - log10(low)) * size,
\* mirrored for Y, not the linear interpolation
C16_LogMapping ==
  Called("map") =>
    /\ probe.in.a > 0 => LogMapped(probe.in.a, probe.out.a, probe.in)
    /\ probe.in.b > 0 => LogMapped(probe.in.b, probe.out.b, probe.in)

\* (v - low) / (high - low) * size, in whole pixels
LinearOffset(val, dom, size) == MulDiv(10 * val - dom.lo, size, dom.hi - dom.lo)

\* coordinate c of value val is the linear interpolation at offset `off`
\* from the low edge `edge` of an axis `size` pixels long: a value of the
\* domain lands on the axis, the middle of the domain in its middle
LinearOnAxis(val, dom, c, off, lowEdge, size) ==
  /\ off = LinearOffset(val, dom, size)
  /\ (dom.lo <= 10 * val /\ 10 * val <= dom.hi) => (lowEdge <= c /\ c <= lowEdge + size)
  /\ 20 * val = dom.lo + dom.hi => 2 * c = 2 * lowEdge + size

\* the screen point sp of the data point (val, val) follows the linear
\* formula on every linear axis with a valid domain
LinearMapped(val, sp, in) ==
  /\ (in.xScale = "linear" /\ ValidDomain(in.xDom, "linear")) =>
       /\ ~sp.xnan
       /\ LinearOnAxis(val, in.xDom, sp.x, sp.x - in.rect.ox, in.rect.ox, in.rect.w)
  /\ (in.yScale = "linear" /\ ValidDomain(in.yDom, "linear")) =>
       /\ ~sp.ynan
       /\ LinearOnAxis(val, in.yDom, sp.y, in.rect.oy + in.rect.h - sp.y,
                       in.rect.oy, in.rect.h)

\* the scenario: linear axes, domain [0,10] x [0,10], rectangle 100 x 100
\* at (0,0), first data point (5,5)
CentreScenario ==
  /\ probe.in.xScale = "linear" /\ probe.in.yScale = "linear"
  /\ probe.in.xDom = UnitDomain /\ probe.in.yDom = UnitDomain
  /\ probe.in.rect = UnitRect
  /\ probe.in.a = 500

\* C17: on a linear axis the screen coordinate of v is
\* origin + (v - low) / (high - low) * size (mirrored for Y): a value inside
\* the domain maps inside the plot rectangle, the domain midpoint to its
\* centre, and in the scenario (5,5) maps to (50,50)
C17_LinearMapping ==
  Called("map") =>
    /\ LinearMapped(probe.in.a, probe.out.a, probe.in)
    /\ LinearMapped(probe.in.b, probe.out.b, probe.in)
    /\ CentreScenario => (probe.out.a.x = 50 /\ probe.out.a.y = 50)

\* C17 witness: the scenario has been mapped, to the centre (50,50)
C17_Witness ==
  /\ Called("map")
  /\ CentreScenario
  /\ probe.out.a.x = 50 /\ probe.out.a.y = 50
  /\ ~probe.out.a.nan

\* the axis has no coordinate for the value: the domain is not a pair of
\* finite numbers or is collapsed, or, on a log axis, the value or an end
\* of the domain is not positive
Unmappable(val, dom, scale) ==
  \/ dom.k /= "num"
  \/ dom.hi = dom.lo
  \/ scale = "log" /\ (val <= 0 \/ dom.lo <= 0 \/ dom.hi <= 0)

\* the screen point sp of the data point (val, val) is finite, and on an
\* axis without coordinate for val it is the pixel of the axis origin
FailsClosed(val, sp, in) ==
  /\ ~sp.xnan /\ ~sp.ynan
  /\ Unmappable(val, in.xDom, in.xScale) => sp.x = in.rect.ox
  /\ Unmappable(val, in.yDom, in.yScale) => sp.y = in.rect.oy + in.rect.h

\* C18: the coordinate mapping fails closed: a value <= 0 on a log axis, or
\* a non-positive, non-finite or collapsed domain, maps to the axis origin
\* pixel, and no coordinate is NaN or infinite
C18_MappingFailsClosed ==
  Called("map") =>
    /\ FailsClosed(probe.in.a, probe.out.a, probe.in)
    /\ FailsClosed(probe.in.b, probe.out.b, probe.in)

\* val lies in the domain, and the domain is valid for the scale
InValid(val, dom, scale) ==
  ValidDomain(dom, scale) /\ dom.lo <= 10 * val /\ 10 * val <= dom.hi

\* the two data values are ordered a < b and both lie in the valid domains
\* of both axes
OrderedPair(in) ==
  /\ in.a < in.b
  /\ InValid(in.a, in.xDom, in.xScale) /\ InValid(in.b, in.xDom, in.xScale)
  /\ InValid(in.a, in.yDom, in.yScale) /\ InValid(in.b, in.yDom, in.yScale)

\* C19: the Y mapping is inverted relative to X: for values a < b inside a
\* valid domain mapX(a) < mapX(b) while mapY(a) > mapY(b), on linear and
\* on log axes
C19_YInverted ==
  (Called("map") /\ OrderedPair(probe.in)) =>
    /\ ~probe.out.a.nan /\ ~probe.out.b.nan
    /\ probe.out.a.x < probe.out.b.x
    /\ probe.out.a.y > probe.out.b.y

\* C19 witness: two ordered values have been mapped on log axes, the
\* larger to the right of and above the smaller
C19_Witness ==
  /\ Called("map")
  /\ OrderedPair(probe.in)
  /\ probe.in.xScale = "log" /\ probe.in.yScale = "log"
  /\ probe.out.a.x < probe.out.b.x
  /\ probe.out.a.y > probe.out.b.y

\* the anchors other than anchor i strictly closer to it than the radius
\* (tenths of a pixel)
OtherAnchorsWithin(allPoints, i, radius) ==
  {j \in 1..Len(allPoints) :
     /\ j /= i
     /\ radius > 0
     /\ 100 * ((allPoints[j].x - allPoints[i].x) * (allPoints[j].x - allPoints[i].x)
               + (allPoints[j].y - allPoints[i].y) * (allPoints[j].y - allPoints[i].y))
          < radius * radius}

\* C20: calculateDensity(point, allPoints, radius) is the number of anchors
\* other than the point itself strictly closer than radius; an isolated
\* anchor has density 0
C20_DensityCountsOthers ==
  Called("calculateDensity") =>
    probe.out.n = Cardinality(OtherAnchorsWithin(probe.in.allPoints, probe.in.i,
                                                 probe.in.radius))

AllFinite(vals) == \A i \in 1..Len(vals) : IsNum(vals[i])
AllEqual(vals) == \A i, j \in 1..Len(vals) : vals[i] = vals[j]
InUnit(val) == IsNum(val) /\ 0 <= val.v /\ val.v <= 1000

\* C21: for finite inputs and either scale every value normalizeValues
\* returns lies in [0,1], and when all values are equal each maps to 0.5
C21_NormalizedInUnit ==
  (Called("normalizeValues") /\ AllFinite(probe.in.vals)) =>
    /\ \A i \in 1..Len(probe.out.vals) : InUnit(probe.out.vals[i])
    /\ AllEqual(probe.in.vals) =>
         \A i \in 1..Len(probe.out.vals) : probe.out.vals[i] = Num(500)

\* C22: normalizeValues returns as many values as it was given, and at the
\* position of every non-finite input the value 0
C22_NonFiniteToZero ==
  Called("normalizeValues") =>
    /\ Len(probe.out.vals) = Len(probe.in.vals)
    /\ \A i \in 1..Len(probe.in.vals) :
         ~IsNum(probe.in.vals[i]) => probe.out.vals[i] = Num(0)

-----------------------------------------------------------------------------
(* The tolerance panel on its own: the page with data loaded and the      *)
(* default tolerances, the sliders and the reset button being used.       *)

InitPanel ==
  /\ InitLayout
  /\ xMetric = "market_cap_value"
  /\ xScale = "linear"
  /\ yScale = "linear"
  /\ tolerances = defaultTolerances(variant)
  /\ container = ContainerNormal

NextPanel ==
  \/ \E tol \in ToleranceEdits(variant, tolerances) : SetTolerances(tol)
  \/ ResetTolerances
  \/ FireTimer

SpecPanel == InitPanel /\ [][NextPanel]_vars

-----------------------------------------------------------------------------
(* The zoom buttons on their own, pressed any number of times on the page *)
(* with data loaded.                                                      *)

InitZoom == InitPanel /\ data = DS_Mixed

ClickZoomIn == ZoomTo(zoomIn(zoom)) /\ UNCHANGED nEvents
ClickZoomOut == ZoomTo(zoomOut(zoom)) /\ UNCHANGED nEvents
ClickResetZoom == ZoomTo(100) /\ UNCHANGED nEvents

NextZoom ==
  \/ ClickZoomIn
  \/ ClickZoomOut
  \/ ClickResetZoom
  \/ FireTimer

SpecZoom == InitZoom /\ [][NextZoom]_vars

-----------------------------------------------------------------------------
(* Claims about the start and the rendering of the labels *)

\* the options the last pass handed to createLabelSimulation
LastOptions ==
  IF variant = "gem" THEN SimOptionsGem(lastRun.cl.tolerances, lastRun.cont)
  ELSE SimOptionsP000(lastRun.cl.tolerances)

\* Where the simulator starts the boxes, in the frame of the container:
\* the boxes of part_000 are handed over in the frame of the plot.
StartInContainer(start, tol) ==
  IF variant = "gem" THEN [x |-> start.px \div 10, y |-> start.py \div 10]
  ELSE [x |-> start.px \div 10 + tol.chartMarginLeft,
        y |-> start.py \div 10 + tol.chartMarginTop]

StartsOffsetOnce(starts, tol) ==
  \A i \in 1..Len(starts) :
     /\ StartInContainer(starts[i], tol).x = starts[i].l.dataX
     /\ Abs(StartInContainer(starts[i], tol).y - starts[i].l.dataY)
          = Abs(tol.labelYOffset)
     /\ tol = defaultTolerances(variant) =>
          StartInContainer(starts[i], tol).y < starts[i].l.dataY

\* C23: every label box handed to createLabelSimulation starts at its
\* anchor's x and at its anchor's y displaced by labelYOffset, once; with
\* the default tolerances it starts above its data point
C23_StartOffsetOnce ==
  lastRun.sim =>
    StartsOffsetOnce(SimStart(simInput, LastOptions.yOffset), lastRun.cl.tolerances)

\* the label boxes createLabelSimulation returned to the last pass
LastSimulated ==
  IF variant = "gem" THEN SimulatedGem(simInput, lastRun.cl.tolerances, lastRun.cont)
  ELSE SimulatedP000(simInput, lastRun.cl.tolerances, lastRun.cont)

ElementDistanceSq(el) ==
  (el.x - el.dataX) * (el.x - el.dataX) + (el.y - el.dataY) * (el.y - el.dataY)

AllRendered(simulated, elements) ==
  /\ Len(elements) = Len(simulated)
  /\ \A i \in 1..Len(elements) :
       /\ elements[i].key = simulated[i].id
       /\ elements[i].line <=> ElementDistanceSq(elements[i]) > 5 * 5

\* C24: every label box the simulator returned is rendered, however
\* little it moved, and its leader line is drawn exactly when the label
\* centre is more than 5 px from the anchor
C24_AllSimulatedRendered == lastRun.sim => AllRendered(LastSimulated, labelElements)

-----------------------------------------------------------------------------
(* Claims about the tolerance panel *)

\* C25: the reset button replaces the tolerances wholesale: after it
\* every knob has its value in defaultTolerances, whatever slider edits
\* came before, and a second reset changes nothing
C25_ResetRestoresDefaults ==
  /\ [][ResetTolerances => tolerances' = defaultTolerances(variant)]_vars
  /\ [](tolerances = defaultTolerances(variant) => ~ENABLED ResetTolerances)

\* the labels were laid out with edited tolerances, which a reset has
\* since replaced (no slider edit of the model restores a default)
C25_Witness ==
  /\ lastRun.sim
  /\ lastRun.cl.tolerances.labelYOffset /= defaultTolerances(variant).labelYOffset
  /\ lastRun.cl.tolerances.labelCollisionRadius = 50
  /\ tolerances = defaultTolerances(variant)

-----------------------------------------------------------------------------
(* Claims about overlapping fetches *)

\* the fetch started for the current currency has resolved, and the fetch
\* of an earlier currency resolves in this step
StaleResponse ==
  /\ \A j \in 1..Len(inflight) : inflight[j] /= currency
  /\ \E i \in 1..Len(inflight) : inflight' = RemoveAt(inflight, i)

\* C26: the response of a fetch for an earlier currency that resolves
\* after the fetch for the latest currency leaves the data, the error and
\* the loading flag of the latest fetch as they are
C26_LatestFetchWins == [][StaleResponse => UNCHANGED <<data, error, loading>>]_vars

\* C27: the loading flag is set in every state in which a fetch is in
\* flight
C27_LoadingWhileInFlight == inflight /= <<>> => loading

-----------------------------------------------------------------------------
(* Claims about the label switch *)

\* labels are off, no recomputation is pending, and the last one ran
\* with labels off
LabelsOffSettled ==
  /\ ~showLabels
  /\ timers = <<>>
  /\ lastRun.ran
  /\ ~lastRun.cl.showLabels

-----------------------------------------------------------------------------
(* Claims about the Retry control *)

\* C29: part_000: the Retry control shown after a failed fetch starts a
\* new fetch of the data
C29_RetryStartsFetch == [][Retry => Len(inflight') = Len(inflight) + 1]_vars

-----------------------------------------------------------------------------
(* Claims about the zoom buttons *)

\* C30: whatever sequence of zoom-in, zoom-out and reset steps is taken
\* from zoom = 1, the zoom factor stays within [0.5, 5]; zoom-in never
\* lowers it, zoom-out never raises it, and reset sets it to 1
C30_ZoomBounded ==
  /\ [](50 <= zoom /\ zoom <= 500)
  /\ [][ClickZoomIn => zoom' >= zoom]_vars
  /\ [][ClickZoomOut => zoom' <= zoom]_vars
  /\ [][ClickResetZoom => zoom' = 100]_vars

\* the upper limit has been reached
C30_Witness == zoom = 500

====
